---- MODULE Spec2Model ----
(***************************************************************************)
(* Gesture-driven animation engine: the scene component (ThreeScene.tsx),  *)
(* the hand-tracking set-up and detection loop (App.tsx) and the detector  *)
(* wrapper (HandTrackingService.ts).                                       *)
(*                                                                         *)
(* Numbers.  The program computes in IEEE doubles and stores the trail in  *)
(* a Float32Array.  The model computes in fixed point with round-to-       *)
(* nearest: a scene coordinate is an integer number of 1/PosScale units,   *)
(* pinchFactor and opacities are in 1/PinchScale and 1/OpScale, rotations  *)
(* in 1/RotScale radians, normalised image coordinates in 1/NormDen, the   *)
(* clock in 1/TimeScale seconds.  A Float32Array slot keeps fewer digits   *)
(* than a double: it is rounded to a multiple of F32Step units.            *)
(***************************************************************************)
EXTENDS Integers, Sequences, FiniteSets, TLC

VARIABLES
    targetHandPos,   \* targetHandPos.current            (ThreeScene.tsx:28)
    currentHandPos,  \* currentHandPos.current           (ThreeScene.tsx:29)
    isPinchingRef,   \* isPinchingRef.current            (ThreeScene.tsx:30)
    pinchFactor,     \* pinchFactor.current              (ThreeScene.tsx:31)
    rotation,        \* mainGroup.rotation <<x, y>>      (ThreeScene.tsx:41-42)
    tArray,          \* trail positions, slot 0..tCount-1 (ThreeScene.tsx:163)
    vPos,            \* particle positions, as radii    (ThreeScene.tsx:143)
    vMatOpacity,     \* vMat.opacity                     (ThreeScene.tsx:195)
    starRotY,        \* star.rotation.y in 1/100 rad     (ThreeScene.tsx:221)
    memories,        \* memoriesGroupRef.current.children (ThreeScene.tsx:77)
    loads,           \* TextureLoader requests: "pending" | "loaded" | "failed"
    elapsed,         \* clock.current.getElapsedTime()   (ThreeScene.tsx:25)
    rafAnimate,      \* an animation-frame callback for animate is scheduled
    camera,          \* <<innerWidth, innerHeight>> the camera/targets use
    cv,              \* position of setupCV / detectLoop (App.tsx:22-63)
    camError,        \* React state camError             (App.tsx:10)
    handDetected,    \* React state handDetected         (App.tsx:9)
    frame,           \* history: number of animate calls so far
    posHist,         \* history: currentHandPos at the end of the last ticks
    pinchRun,        \* history: pinchFactor before each of the last pinching ticks
    lerpRun,         \* history: [from, n] ticks since the target last changed
    hands,           \* history: detection ticks that delivered a hand
    callRun,         \* history: the state at the last tick and the calls since
    missed           \* history: the kinds of detection tick without a hand

vars == <<targetHandPos, currentHandPos, isPinchingRef, pinchFactor, rotation,
          tArray, vMatOpacity, starRotY, memories, loads, elapsed, rafAnimate,
          camera, cv, camError, handDetected, frame, posHist, pinchRun,
          lerpRun, hands, vPos, callRun, missed>>

----------------------------------------------------------------------------
(* Resolutions of the fixed-point representation. *)
PosScale == 1000 * 1000
PinchScale == 10 * 100
OpScale == 10 * 100
RotScale == 10 * 1000
NormDen == 2 * 3
TimeScale == 1 + 1
F32Step == 2 * 4

(* Program constants. *)
MapX == 60
MapY == 45
TargetZ == 15
RotXMilli == 250
RotYMilli == 500
RotEasePct == 4
PinchEasePct == 10
LerpAlphaPct == 12
FadeTenths == 15
BobMicro == 15000
PinchThresholdMilli == 55
StarStep == 2
VOpacityBase == 400
VOpacityGain == 500
VBaseR == 8
VSpreadR == 25
VGrowPct == 30

(* Bounds of the model. *)
vCount == 2
tCount == 3
MaxTicks == 2
MaxDetect == 1
MaxTime == 1
MaxRequests == 1
GestureTicks == 6
GestureDetect == 3
DeepTicks == 125
PinchTicks == 54
PinchDetect == 2
MemTicks == 3
MemTime == 4
MemRequests == 2
MaxPow == 5

(* Inputs: palm centres and thumb-to-index offsets the detector may report *)
(* (normalised image coordinates), viewport sizes, a spawn position.       *)
Palms == {<<4, 3>>, <<1, 5>>}

CentrePalm == <<4, 3>>

TipOffsets == {<<30, 20>>, <<33, 44>>}

Viewports == {<<800, 600>>, <<1024, 768>>}

SpawnAt == <<15 * PosScale, 10 * PosScale>>

----------------------------------------------------------------------------
Abs(x) == IF x < 0 THEN -x ELSE x

(* Round-to-nearest division (ties away from zero), b > 0. *)
RoundDiv(a, b) ==
    IF a >= 0 THEN (2 * a + b) \div (2 * b)
    ELSE -((2 * (-a) + b) \div (2 * b))

Vec(x, y, z) == <<x, y, z>>

Origin == Vec(0, 0, 0)

(* Math.fround as the Float32Array store applies it (ThreeScene.tsx:205). *)
Fround(v) == RoundDiv(v, F32Step) * F32Step

FroundVec(p) == Vec(Fround(p[1]), Fround(p[2]), Fround(p[3]))

(* sin(q / 4) * 1000 for an angle of q quarter-radians. *)
SinTable ==
    <<0, 247, 479, 682, 841, 949, 997, 984, 909, 778, 598, 382, 141,
      -108, -351, -572, -757, -895, -978, -999, -959, -859, -706, -508, -279>>

SinMilli(q) == SinTable[(q % 25) + 1]

(* targetHandPos.current.set((x - 0.5) * 60, (0.5 - y) * 45, 15) *)
MapTarget(x, y) ==
    Vec(RoundDiv((2 * x - NormDen) * (MapX * PosScale), 2 * NormDen),
        RoundDiv((NormDen - 2 * y) * (MapY * PosScale), 2 * NormDen),
        TargetZ * PosScale)

(* targetRX = (y - 0.5) * 0.25, targetRY = (x - 0.5) * 0.5 *)
TargetRX(y) == RoundDiv((2 * y - NormDen) * RotXMilli * (RotScale \div 1000), 2 * NormDen)

TargetRY(x) == RoundDiv((2 * x - NormDen) * RotYMilli * (RotScale \div 1000), 2 * NormDen)

(* r += (target - r) * 0.04 *)
EaseRot(r, target) == r + RoundDiv((target - r) * RotEasePct, 100)

(* The easing with its difference the wrong way round. *)
SmoothPinchReversed(p, pinching) ==
    LET targetPinch == IF pinching THEN PinchScale ELSE 0
    IN  p + RoundDiv((p - targetPinch) * PinchEasePct, 100)

(* The easing with twice the coefficient. *)
SmoothPinchFast(p, pinching) ==
    LET targetPinch == IF pinching THEN PinchScale ELSE 0
    IN  p + RoundDiv((targetPinch - p) * 2 * PinchEasePct, 100)

(* pinchFactor.current += (targetPinch - pinchFactor.current) * 0.1 *)
SmoothPinch(p, pinching) ==
    LET targetPinch == IF pinching THEN PinchScale ELSE 0
    IN  p + RoundDiv((targetPinch - p) * PinchEasePct, 100)

(* The interpolation with a coefficient of 0.1 instead of 0.12. *)
Lerp1Slow(c, t) == c + RoundDiv((t - c) * 10, 100)

(* Vector3.lerp: this.x += (v.x - this.x) * alpha, per component. *)
Lerp1(c, t) == c + RoundDiv((t - c) * LerpAlphaPct, 100)

LerpVec(c, t) == Vec(Lerp1(c[1], t[1]), Lerp1(c[2], t[2]), Lerp1(c[3], t[3]))

(* vMat.opacity = 0.4 + pinchFactor.current * 0.5 *)
VortexOpacity(p) == VOpacityBase + RoundDiv(p * VOpacityGain, PinchScale)

(* vMeta: the base radius r = 8 + Math.random() * 25 of particle i, one    *)
(* fixed draw for each particle.                                           *)
vMeta == [i \in 0..(vCount - 1) |-> (VBaseR + ((12 * i) % VSpreadR)) * PosScale]

(* currentR = r * (1 + pinchFactor.current * 0.3) *)
CurrentR(r, p) == r + RoundDiv((r \div PinchScale) * p * VGrowPct, 100)

(* The particle loop: every particle is put at radius currentR. *)
AdvanceVortex(p) == [i \in 0..(vCount - 1) |-> CurrentR(vMeta[i], p)]

(* The shift loop of the trail, i from tCount - 1 down to 1:                *)
(* tArray[i] = tArray[i - 1].                                               *)
RECURSIVE ShiftFrom(_, _)
ShiftFrom(t, i) ==
    IF i < 1 THEN t ELSE ShiftFrom([t EXCEPT ![i] = t[i - 1]], i - 1)

(* The shift loop run upward, i from 1 to tCount - 1. *)
RECURSIVE ShiftUpFrom(_, _)
ShiftUpFrom(t, i) ==
    IF i > tCount - 1 THEN t ELSE ShiftUpFrom([t EXCEPT ![i] = t[i - 1]], i + 1)

(* The trail advanced with the upward loop. *)
AdvanceTrailUpward(t, cur) == [ShiftUpFrom(t, 1) EXCEPT ![0] = FroundVec(cur)]

(* The trail after one tick: shifted, then slot 0 written from the smoothed *)
(* position, each store rounded by the Float32Array.                        *)
AdvanceTrail(t, cur) == [ShiftFrom(t, tCount - 1) EXCEPT ![0] = FroundVec(cur)]

(* age < 1.5 *)
Fading(age) == age * 10 < FadeTenths * TimeScale

(* age / 1.5 *)
FadeOpacity(age) == RoundDiv(age * 10 * OpScale, FadeTenths * TimeScale)

(* Math.sin(time + group.position.x) * 0.015 *)
Bob(time, x) ==
    LET q == RoundDiv(time * 4, TimeScale) + RoundDiv(x * 4, PosScale)
    IN  RoundDiv(SinMilli(q) * (BobMicro \div 1000) * (PosScale \div 1000), 1000)

(* The fade applied on every tick, without the test of the age. *)
MemoryStepUnguarded(g, time) ==
    LET age == time - g.birth
    IN  [g EXCEPT
           !.opacity = FadeOpacity(age),
           !.borderOpacity = FadeOpacity(age),
           !.y = @ + Bob(time, g.x)]

(* The body of memoriesGroupRef.current.children.forEach for one group. *)
MemoryStep(g, time) ==
    LET age == time - g.birth
    IN  [g EXCEPT
           !.opacity = IF Fading(age) THEN FadeOpacity(age) ELSE @,
           !.borderOpacity = IF Fading(age) THEN FadeOpacity(age) ELSE @,
           !.y = @ + Bob(time, g.x)]

(* isPinching = sqrt(dx^2 + dy^2) < 0.055, fingertip offsets in 1/1000. *)
IsPinch(dx, dy) == dx * dx + dy * dy < PinchThresholdMilli * PinchThresholdMilli

----------------------------------------------------------------------------
Init ==
    /\ targetHandPos = Origin
    /\ currentHandPos = Origin
    /\ isPinchingRef = FALSE
    /\ pinchFactor = 0
    /\ rotation = <<0, 0>>
    /\ tArray = [i \in 0..(tCount - 1) |-> Origin]
    /\ vMatOpacity = 500
    /\ starRotY = 0
    /\ memories = <<>>
    /\ loads = <<>>
    /\ elapsed = 0
    /\ rafAnimate = TRUE
    /\ camera = <<800, 600>>
    /\ cv = "getUserMedia"
    /\ camError = "none"
    /\ handDetected = FALSE
    /\ frame = 0
    /\ posHist = [i \in 0..(tCount - 1) |-> Origin]
    /\ pinchRun = <<>>
    /\ lerpRun = [from |-> Origin, n |-> 0]
    /\ hands = 0
    /\ vPos = vMeta
    /\ callRun = [cur |-> Origin, pinch |-> 0, rot |-> <<0, 0>>, n |-> 0, last |-> <<>>]
    /\ missed = {}

sceneVars == <<targetHandPos, isPinchingRef, rotation>>
smoothVars == <<currentHandPos, pinchFactor, tArray, vPos, vMatOpacity, starRotY,
                rafAnimate, frame, posHist, pinchRun>>
memoryVars == <<memories, loads>>
cvVars == <<cv, camError, handDetected, hands, missed>>

(* The clock runs on its own. *)
ClockAdvance ==
    /\ elapsed' = elapsed + 1
    /\ UNCHANGED <<sceneVars, smoothVars, memoryVars, cvVars, camera, lerpRun, callRun>>

(* getUserMedia rejects: the catch sets camError and yields null. *)
CameraDenied ==
    /\ cv = "getUserMedia"
    /\ cv' = "noStream"
    /\ camError' = "restricted"
    /\ UNCHANGED <<sceneVars, smoothVars, memoryVars, camera, elapsed, lerpRun, callRun,
                   handDetected, hands, missed>>

(* getUserMedia resolves: initialize(video) is awaited. *)
CameraGranted ==
    /\ cv = "getUserMedia"
    /\ cv' = "initialize"
    /\ UNCHANGED <<sceneVars, smoothVars, memoryVars, camera, elapsed, lerpRun, callRun,
                   camError, handDetected, hands, missed>>

(* initialize rejects and the detection loop is started all the same. *)
InitializeFailStartsLoop ==
    /\ cv = "initialize"
    /\ cv' = "detecting"
    /\ camError' = "unavailable"
    /\ UNCHANGED <<sceneVars, smoothVars, memoryVars, camera, elapsed, lerpRun, callRun,
                   handDetected, hands, missed>>

(* initialize rejects: the outer catch sets camError, no loop starts. *)
InitializeFail ==
    /\ cv = "initialize"
    /\ cv' = "failed"
    /\ camError' = "unavailable"
    /\ UNCHANGED <<sceneVars, smoothVars, memoryVars, camera, elapsed, lerpRun, callRun,
                   handDetected, hands, missed>>

(* initialize resolves: detectLoop runs and keeps rescheduling itself. *)
InitializeOk ==
    /\ cv = "initialize"
    /\ cv' = "detecting"
    /\ UNCHANGED <<sceneVars, smoothVars, memoryVars, camera, elapsed, lerpRun, callRun,
                   camError, handDetected, hands, missed>>

(* A detection tick without a hand that also resets the target. *)
DetectNoHandSnap ==
    /\ cv = "detecting"
    /\ handDetected' = FALSE
    /\ missed' = missed \cup {"noHand"}
    /\ targetHandPos' = Origin
    /\ UNCHANGED <<isPinchingRef, rotation, smoothVars, memoryVars, camera, elapsed,
                   lerpRun, callRun, cv, camError, hands>>

(* A detection tick with the video not ready that ends the loop. *)
DetectNotReadyStops ==
    /\ cv = "detecting"
    /\ cv' = "stopped"
    /\ handDetected' = FALSE
    /\ missed' = missed \cup {"notReady"}
    /\ UNCHANGED <<sceneVars, smoothVars, memoryVars, camera, elapsed, lerpRun, callRun,
                   camError, hands>>

(* detectLoop when detect() returns null: the video is not ready and the   *)
(* detector is not asked.                                                  *)
DetectNotReady ==
    /\ cv = "detecting"
    /\ handDetected' = FALSE
    /\ missed' = missed \cup {"notReady"}
    /\ UNCHANGED <<sceneVars, smoothVars, memoryVars, camera, elapsed, lerpRun, callRun,
                   cv, camError, hands>>

(* A detection tick without a hand that lets the rotation ease back to 0. *)
DetectNoHandDecay ==
    /\ cv = "detecting"
    /\ handDetected' = FALSE
    /\ missed' = missed \cup {"noHand"}
    /\ rotation' = <<EaseRot(rotation[1], 0), EaseRot(rotation[2], 0)>>
    /\ UNCHANGED <<targetHandPos, isPinchingRef, smoothVars, memoryVars, camera, elapsed,
                   lerpRun, callRun, cv, camError, hands>>

(* A detection tick without a hand that also releases the pinch latch. *)
DetectNoHandRelease ==
    /\ cv = "detecting"
    /\ handDetected' = FALSE
    /\ missed' = missed \cup {"noHand"}
    /\ isPinchingRef' = FALSE
    /\ UNCHANGED <<targetHandPos, rotation, smoothVars, memoryVars, camera, elapsed,
                   lerpRun, callRun, cv, camError, hands>>

(* detectLoop when detect() returns {detected: false}: the detector found  *)
(* no landmarks.                                                           *)
DetectNoHand ==
    /\ cv = "detecting"
    /\ handDetected' = FALSE
    /\ missed' = missed \cup {"noHand"}
    /\ UNCHANGED <<sceneVars, smoothVars, memoryVars, camera, elapsed, lerpRun, callRun,
                   cv, camError, hands>>

(* updateHandInteraction that also moves currentHandPos onto the target. *)
DetectHandJump(palm, tip) ==
    LET x == palm[1]
        y == palm[2]
        target == MapTarget(x, y)
    IN  /\ cv = "detecting"
        /\ handDetected' = TRUE
        /\ targetHandPos' = target
        /\ currentHandPos' = target
        /\ isPinchingRef' = IsPinch(tip[1], tip[2])
        /\ rotation' = <<EaseRot(rotation[1], TargetRX(y)),
                         EaseRot(rotation[2], TargetRY(x))>>
        /\ lerpRun' = IF target = targetHandPos THEN lerpRun
                      ELSE [from |-> currentHandPos, n |-> 0]
        /\ hands' = hands + 1
        /\ callRun' = [callRun EXCEPT !.n = @ + 1, !.last = <<x, y, isPinchingRef'>>]
        /\ UNCHANGED <<pinchFactor, tArray, vPos, vMatOpacity, starRotY, rafAnimate,
                       frame, posHist, pinchRun, memoryVars, camera, elapsed, cv,
                       camError, missed>>

(* detectLoop when detect() returns landmarks: updateHandInteraction runs   *)
(* with the palm centre and the pinch decision.                            *)
DetectHand(palm, tip) ==
    LET x == palm[1]
        y == palm[2]
        target == MapTarget(x, y)
    IN  /\ cv = "detecting"
        /\ handDetected' = TRUE
        /\ targetHandPos' = target
        /\ isPinchingRef' = IsPinch(tip[1], tip[2])
        /\ rotation' = <<EaseRot(rotation[1], TargetRX(y)),
                         EaseRot(rotation[2], TargetRY(x))>>
        /\ lerpRun' = IF target = targetHandPos THEN lerpRun
                      ELSE [from |-> currentHandPos, n |-> 0]
        /\ hands' = hands + 1
        /\ callRun' = [callRun EXCEPT !.n = @ + 1, !.last = <<x, y, isPinchingRef'>>]
        /\ UNCHANGED <<smoothVars, memoryVars, camera, elapsed, cv, camError, missed>>

(* addMemory that puts a placeholder group in the scene before the load.  *)
AddMemoryEager ==
    /\ loads' = Append(loads, "pending")
    /\ memories' = Append(memories,
                          [map |-> Len(loads) + 1, birth |-> elapsed, opacity |-> 0,
                           borderOpacity |-> 0, x |-> SpawnAt[1], y |-> SpawnAt[2]])
    /\ UNCHANGED <<sceneVars, smoothVars, cvVars, camera, elapsed, lerpRun, callRun>>

(* addMemory(url): a TextureLoader request is started, nothing else.       *)
AddMemory ==
    /\ loads' = Append(loads, "pending")
    /\ UNCHANGED <<sceneVars, smoothVars, cvVars, memories, camera, elapsed, lerpRun, callRun>>

(* An onLoad callback that dates the group from the start of the clock. *)
LoadCompleteAtStart(r, at) ==
    /\ loads[r] = "pending"
    /\ loads' = [loads EXCEPT ![r] = "loaded"]
    /\ memories' = Append(memories,
                          [map |-> r, birth |-> 0, opacity |-> 0,
                           borderOpacity |-> 0, x |-> at[1], y |-> at[2]])
    /\ UNCHANGED <<sceneVars, smoothVars, cvVars, camera, elapsed, lerpRun, callRun>>

(* The onLoad callback of request r: the group is built and added.         *)
LoadComplete(r, at) ==
    /\ loads[r] = "pending"
    /\ loads' = [loads EXCEPT ![r] = "loaded"]
    /\ memories' = Append(memories,
                          [map |-> r, birth |-> elapsed, opacity |-> 0,
                           borderOpacity |-> 0, x |-> at[1], y |-> at[2]])
    /\ UNCHANGED <<sceneVars, smoothVars, cvVars, camera, elapsed, lerpRun, callRun>>

(* A failed request that still adds its group, without a texture.         *)
LoadFailAddsGroup(r) ==
    /\ loads[r] = "pending"
    /\ loads' = [loads EXCEPT ![r] = "failed"]
    /\ memories' = Append(memories,
                          [map |-> r, birth |-> elapsed, opacity |-> 0,
                           borderOpacity |-> 0, x |-> SpawnAt[1], y |-> SpawnAt[2]])
    /\ UNCHANGED <<sceneVars, smoothVars, cvVars, camera, elapsed, lerpRun, callRun>>

(* Request r fails: no onError callback was given, nothing runs.           *)
LoadFail(r) ==
    /\ loads[r] = "pending"
    /\ loads' = [loads EXCEPT ![r] = "failed"]
    /\ UNCHANGED <<sceneVars, smoothVars, cvVars, memories, camera, elapsed, lerpRun, callRun>>

(* A resize listener that also empties the trail. *)
ResizeResetsTrail(size) ==
    /\ camera' = size
    /\ tArray' = [i \in 0..(tCount - 1) |-> Origin]
    /\ UNCHANGED <<sceneVars, currentHandPos, pinchFactor, vPos, vMatOpacity, starRotY,
                   rafAnimate, frame, posHist, pinchRun, memoryVars, cvVars, elapsed,
                   lerpRun, callRun>>

(* The resize listener. *)
Resize(size) ==
    /\ camera' = size
    /\ UNCHANGED <<sceneVars, smoothVars, memoryVars, cvVars, elapsed, lerpRun, callRun>>

(* animate that asks for its next frame only while a hand is tracked. *)
AnimateWhileTracking ==
    /\ rafAnimate
    /\ rafAnimate' = handDetected
    /\ pinchFactor' = SmoothPinch(pinchFactor, isPinchingRef)
    /\ vPos' = AdvanceVortex(pinchFactor')
    /\ vMatOpacity' = VortexOpacity(pinchFactor')
    /\ currentHandPos' = LerpVec(currentHandPos, targetHandPos)
    /\ tArray' = AdvanceTrail(tArray, currentHandPos')
    /\ memories' = [i \in DOMAIN memories |-> MemoryStep(memories[i], elapsed)]
    /\ starRotY' = starRotY + StarStep
    /\ frame' = frame + 1
    /\ posHist' = [i \in 0..(tCount - 1) |->
                      IF i = 0 THEN currentHandPos' ELSE posHist[i - 1]]
    /\ pinchRun' = <<>>
    /\ lerpRun' = [lerpRun EXCEPT !.n = @ + 1]
    /\ callRun' = [cur |-> currentHandPos', pinch |-> pinchFactor', rot |-> rotation,
                   n |-> 0, last |-> <<>>]
    /\ UNCHANGED <<sceneVars, cvVars, loads, camera, elapsed>>

(* animate with the particle field moved before pinchFactor is smoothed. *)
AnimateFieldFirst ==
    /\ rafAnimate
    /\ rafAnimate' = TRUE
    /\ vPos' = AdvanceVortex(pinchFactor)
    /\ vMatOpacity' = VortexOpacity(pinchFactor)
    /\ pinchFactor' = SmoothPinch(pinchFactor, isPinchingRef)
    /\ currentHandPos' = LerpVec(currentHandPos, targetHandPos)
    /\ tArray' = AdvanceTrail(tArray, currentHandPos')
    /\ memories' = [i \in DOMAIN memories |-> MemoryStep(memories[i], elapsed)]
    /\ starRotY' = starRotY + StarStep
    /\ frame' = frame + 1
    /\ posHist' = [i \in 0..(tCount - 1) |->
                      IF i = 0 THEN currentHandPos' ELSE posHist[i - 1]]
    /\ pinchRun' = IF isPinchingRef
                   THEN SubSeq(<<pinchFactor>> \o pinchRun, 1,
                               IF Len(pinchRun) < MaxPow THEN Len(pinchRun) + 1 ELSE MaxPow)
                   ELSE <<>>
    /\ lerpRun' = [lerpRun EXCEPT !.n = @ + 1]
    /\ callRun' = [cur |-> currentHandPos', pinch |-> pinchFactor', rot |-> rotation,
                   n |-> 0, last |-> <<>>]
    /\ UNCHANGED <<sceneVars, cvVars, loads, camera, elapsed>>

(* One call of animate.  Of each particle the model keeps the radius of    *)
(* its (x, z), which the loop sets to currentR; its angle and its vertical *)
(* drift, and the star's scale, are functions of the elapsed time alone    *)
(* and are not followed.                                                   *)
Animate ==
    /\ rafAnimate
    /\ rafAnimate' = TRUE
    /\ pinchFactor' = SmoothPinch(pinchFactor, isPinchingRef)
    /\ vPos' = AdvanceVortex(pinchFactor')
    /\ vMatOpacity' = VortexOpacity(pinchFactor')
    /\ currentHandPos' = LerpVec(currentHandPos, targetHandPos)
    /\ tArray' = AdvanceTrail(tArray, currentHandPos')
    /\ memories' = [i \in DOMAIN memories |-> MemoryStep(memories[i], elapsed)]
    /\ starRotY' = starRotY + StarStep
    /\ frame' = frame + 1
    /\ posHist' = [i \in 0..(tCount - 1) |->
                      IF i = 0 THEN currentHandPos' ELSE posHist[i - 1]]
    /\ pinchRun' = IF isPinchingRef
                   THEN SubSeq(<<pinchFactor>> \o pinchRun, 1,
                               IF Len(pinchRun) < MaxPow THEN Len(pinchRun) + 1 ELSE MaxPow)
                   ELSE <<>>
    /\ lerpRun' = [lerpRun EXCEPT !.n = @ + 1]
    /\ callRun' = [cur |-> currentHandPos', pinch |-> pinchFactor', rot |-> rotation,
                   n |-> 0, last |-> <<>>]
    /\ UNCHANGED <<sceneVars, cvVars, loads, camera, elapsed>>

----------------------------------------------------------------------------
(* The whole program, every input bounded.  The two kinds of detection     *)
(* tick without a hand differ in the history they leave and in nothing     *)
(* else; the gesture path follows both, the whole program one.             *)
Next ==
    \/ frame < MaxTicks /\ Animate
    \/ elapsed < MaxTime /\ ClockAdvance
    \/ CameraDenied
    \/ CameraGranted
    \/ InitializeFail
    \/ InitializeOk
    \/ DetectNoHand
    \/ hands < MaxDetect /\ \E tip \in TipOffsets : DetectHand(CentrePalm, tip)
    \/ Len(loads) < MaxRequests /\ AddMemory
    \/ \E r \in DOMAIN loads : LoadComplete(r, SpawnAt)
    \/ \E r \in DOMAIN loads : LoadFail(r)
    \/ \E size \in Viewports : Resize(size)

Spec == Init /\ [][Next]_vars

(* The display keeps calling a scheduled animation-frame callback. *)
LiveSpec == Spec /\ WF_vars(frame < MaxTicks /\ Animate)

(* The gesture path alone: set-up, detection ticks and render ticks. *)
NextGesture ==
    \/ frame < GestureTicks /\ Animate
    \/ CameraDenied
    \/ CameraGranted
    \/ InitializeFail
    \/ InitializeOk
    \/ DetectNotReady
    \/ DetectNoHand
    \/ hands < GestureDetect /\ \E palm \in Palms, tip \in TipOffsets : DetectHand(palm, tip)

SpecGesture == Init /\ [][NextGesture]_vars

(* One gesture frame, then the hand is lost, over a long run of ticks. *)
NextSteady ==
    \/ frame < DeepTicks /\ Animate
    \/ CameraGranted
    \/ InitializeOk
    \/ DetectNoHand
    \/ hands = 0 /\ \E palm \in Palms, tip \in TipOffsets : DetectHand(palm, tip)

SpecSteady == Init /\ [][NextSteady]_vars

(* The pinch latch alone: one palm position, the pinch decision changing. *)
NextPinch ==
    \/ frame < PinchTicks /\ Animate
    \/ CameraGranted
    \/ InitializeOk
    \/ hands < PinchDetect /\ \E tip \in TipOffsets : DetectHand(CentrePalm, tip)

SpecPinch == Init /\ [][NextPinch]_vars

(* The artifact path alone: the clock, image loads and render ticks. *)
NextMemory ==
    \/ frame < MemTicks /\ Animate
    \/ elapsed < MemTime /\ ClockAdvance
    \/ Len(loads) < MemRequests /\ AddMemory
    \/ \E r \in DOMAIN loads : LoadComplete(r, SpawnAt)
    \/ \E r \in DOMAIN loads : LoadFail(r)

SpecMemory == Init /\ [][NextMemory]_vars

----------------------------------------------------------------------------
(* C1: in every reachable state, after any interleaving of gesture frames  *)
(* (pinching or not) and render ticks from pinchFactor = 0, pinchFactor is *)
(* in the closed interval [0, 1].                                          *)
C1_PinchFactorInUnitInterval == 0 <= pinchFactor /\ pinchFactor <= PinchScale

(* The latch was released after pinchFactor had risen: it is on its way    *)
(* back down, strictly inside the interval.                                *)
C1_Witness ==
    /\ ~isPinchingRef
    /\ hands = PinchDetect
    /\ frame > 20
    /\ pinchFactor > 0
    /\ pinchFactor < PinchScale \div 2

----------------------------------------------------------------------------
(* 10^n and 9^n *)
RECURSIVE Pow(_, _)
Pow(b, n) == IF n = 0 THEN 1 ELSE b * Pow(b, n - 1)

(* The rounding tolerance of the closed form: half a unit a tick, each     *)
(* tick's error shrinking by 0.9 on the next.                              *)
PinchTol == PinchScale \div 200

(* pinchFactor = 1 - (1 - p0) * 0.9^n within the tolerance, for every n up *)
(* to MaxPow and the value p0 that pinchFactor had n pinching ticks ago.   *)
ClosedForm ==
    \A n \in 1..Len(pinchRun) :
        LET lhs == (PinchScale - pinchFactor) * Pow(10, n)
            rhs == (PinchScale - pinchRun[n]) * Pow(9, n)
        IN  Abs(lhs - rhs) <= PinchTol * Pow(10, n)

(* A render tick taken while the latch is true. *)
PinchingTick == frame' = frame + 1 /\ isPinchingRef

(* The gap to 1 below which a tick's increment rounds to nothing. *)
PinchStall == 50 \div PinchEasePct

(* C9 (as amended): while the latched pinch signal stays true over n       *)
(* render ticks from p0, pinchFactor equals 1 - (1 - p0) * 0.9^n within    *)
(* rounding tolerance; it never decreases and never reaches or exceeds 1,  *)
(* and it increases strictly on every tick that starts further from 1      *)
(* than the rounding resolution.                                           *)
C9_ClosedFormMonotone ==
    /\ [](ClosedForm /\ pinchFactor < PinchScale)
    /\ [][PinchingTick =>
            /\ pinchFactor' >= pinchFactor
            /\ PinchScale - pinchFactor > PinchStall => pinchFactor' > pinchFactor]_vars

(* MaxPow pinching ticks in a row, the first of them starting above 0. *)
C9_Witness ==
    /\ isPinchingRef
    /\ Len(pinchRun) = MaxPow
    /\ pinchRun[MaxPow] > 0
    /\ pinchFactor > pinchRun[MaxPow]

(* C9 as stated: the closed form holds and every pinching tick increases   *)
(* pinchFactor strictly, without reaching 1.                               *)
C9_StrictlyIncreasing ==
    /\ [](ClosedForm /\ pinchFactor < PinchScale)
    /\ [][PinchingTick => pinchFactor' > pinchFactor]_vars

----------------------------------------------------------------------------
(* The Euclidean distance from a to b is at most r (r at most 26000 units, *)
(* so that the sum of squares stays within 32-bit integers).               *)
DistWithin(a, b, r) ==
    /\ \A i \in 1..3 : Abs(a[i] - b[i]) <= r
    /\ (a[1] - b[1]) * (a[1] - b[1]) + (a[2] - b[2]) * (a[2] - b[2])
          + (a[3] - b[3]) * (a[3] - b[3]) <= r * r

FixedTarget == Vec(10 * PosScale, 0, 15 * PosScale)

AfterOneTick == Vec((12 * PosScale) \div 10, 0, (18 * PosScale) \div 10)

(* The target was set to (10,0,15) while currentPosition was at the origin *)
(* and has not changed since; lerpRun.n render ticks have run since then.  *)
LerpCase == targetHandPos = FixedTarget /\ lerpRun.from = Origin

(* C8 (as amended): with targetPosition fixed at (10,0,15) and             *)
(* currentPosition starting at (0,0,0), currentPosition is (1.2,0,1.8)     *)
(* after one render tick; after 50 ticks its distance to the target is     *)
(* still above 0.025 (it is about 0.030), and from the 77th tick on the    *)
(* distance is at most 1e-3.                                               *)
C8_LerpConverges ==
    LerpCase =>
        /\ lerpRun.n = 1 => currentHandPos = AfterOneTick
        /\ lerpRun.n = 50 => ~DistWithin(currentHandPos, FixedTarget, (25 * PosScale) \div 1000)
        /\ lerpRun.n >= 77 => DistWithin(currentHandPos, FixedTarget, PosScale \div 1000)

(* 77 ticks toward the fixed target have run. *)
C8_Witness ==
    /\ LerpCase
    /\ lerpRun.n = 77
    /\ currentHandPos # FixedTarget
    /\ DistWithin(currentHandPos, FixedTarget, PosScale \div 1000)

(* C8 as stated: (1.2,0,1.8) after one tick and within 1e-3 of the target  *)
(* after 50 ticks.                                                         *)
C8_Within50Ticks ==
    LerpCase =>
        /\ lerpRun.n = 1 => currentHandPos = AfterOneTick
        /\ lerpRun.n = 50 => DistWithin(currentHandPos, FixedTarget, PosScale \div 1000)

----------------------------------------------------------------------------
(* The detector delivered a hand at least once and reports none now. *)
HandLost == hands >= 1 /\ ~handDetected

RenderTick == frame' = frame + 1

Gap(i) == Abs(targetHandPos[i] - currentHandPos[i])

GapAfter(i) == Abs(targetHandPos'[i] - currentHandPos'[i])

(* The gap below which a tick's step rounds to nothing. *)
LerpStall == 50 \div LerpAlphaPct

(* C4 (as amended): once the detector has reported a hand (target T) and   *)
(* then reports no hand for any number of detection ticks, targetPosition  *)
(* stays T, and on each render tick currentPosition moves no further from  *)
(* T in any coordinate and strictly closer to T unless it is already       *)
(* within rounding resolution of T, where it stays; never toward the       *)
(* origin.                                                                 *)
C4_TargetRetained ==
    [][/\ hands' = hands => targetHandPos' = targetHandPos
       /\ RenderTick =>
             /\ \A i \in 1..3 : GapAfter(i) <= Gap(i)
             /\ (\E i \in 1..3 : Gap(i) > LerpStall) =>
                   \E i \in 1..3 : GapAfter(i) < Gap(i)]_vars

(* The hand was lost and 100 render ticks later currentPosition is next to *)
(* the last known target, far from the origin.                             *)
C4_Witness ==
    /\ HandLost
    /\ lerpRun.n >= 100
    /\ targetHandPos # Origin
    /\ DistWithin(currentHandPos, targetHandPos, PosScale \div 1000)

(* C4 as stated: the target is retained and every render tick moves        *)
(* currentPosition strictly closer to it unless the two are equal.         *)
C4_StrictlyCloser ==
    [][/\ hands' = hands => targetHandPos' = targetHandPos
       /\ (RenderTick /\ HandLost) =>
             \/ currentHandPos = targetHandPos
             \/ /\ \A i \in 1..3 : GapAfter(i) <= Gap(i)
                /\ \E i \in 1..3 : GapAfter(i) < Gap(i)]_vars

----------------------------------------------------------------------------
(* C5 (as amended): the trail buffer always has exactly K slots, and after *)
(* n >= K render ticks slot j (0 <= j < K) holds the value currentPosition *)
(* had at the end of tick n - j, rounded to the precision of the 32-bit    *)
(* float slot it is stored in; slot 0 is the newest and slot K - 1 the     *)
(* oldest of the last K positions.                                         *)
C5_TrailHoldsHistory ==
    /\ DOMAIN tArray = 0..(tCount - 1)
    /\ \A j \in 0..(tCount - 1) : tArray[j] = FroundVec(posHist[j])

(* K ticks have run, the last K positions are pairwise distinct and the    *)
(* newest is not representable in the slot.                                *)
C5_Witness ==
    /\ frame >= tCount
    /\ \A i, j \in 0..(tCount - 1) : i # j => posHist[i] # posHist[j]
    /\ \A i, j \in 0..(tCount - 1) : i # j => tArray[i] # tArray[j]
    /\ tArray[0] # posHist[0]

(* C5 as stated: after n >= K ticks slot j holds exactly the value         *)
(* currentPosition had at the end of tick n - j.                           *)
C5_TrailHoldsExactHistory ==
    /\ DOMAIN tArray = 0..(tCount - 1)
    /\ frame >= tCount => \A j \in 0..(tCount - 1) : tArray[j] = posHist[j]

----------------------------------------------------------------------------
(* C2: for every artifact and every render tick at elapsed time now, with  *)
(* age = now - birthTime: below 1.5 s the opacity after the tick is        *)
(* age / 1.5, and from 1.5 s on the opacity after the tick is exactly 1,   *)
(* whatever the spacing of the earlier ticks.                              *)
C2_OpacityByAge ==
    [][RenderTick =>
         \A i \in DOMAIN memories :
            LET age == elapsed - memories[i].birth
            IN  memories'[i].opacity =
                   IF Fading(age) THEN FadeOpacity(age) ELSE OpScale]_vars

----------------------------------------------------------------------------
(* C3: for every artifact, across any sequence of render ticks, its        *)
(* opacity never decreases from one state to the next and always lies in   *)
(* [0, 1], and its two materials (photo and border) carry the same         *)
(* opacity.                                                                *)
C3_OpacityMonotone ==
    /\ [](\A i \in DOMAIN memories :
            /\ 0 <= memories[i].opacity
            /\ memories[i].opacity <= OpScale
            /\ memories[i].borderOpacity = memories[i].opacity)
    /\ [][\A i \in DOMAIN memories :
            memories'[i].opacity >= memories[i].opacity]_vars

(* An artifact past its fade-in window after several ticks, its opacity    *)
(* risen above 0 and held.                                                 *)
C3_Witness ==
    \E i \in DOMAIN memories :
        /\ frame >= 3
        /\ ~Fading(elapsed - memories[i].birth)
        /\ memories[i].opacity > OpScale \div 2
        /\ memories[i].borderOpacity = memories[i].opacity

----------------------------------------------------------------------------
(* The requests the artifacts came from, in scene order. *)
Maps(ms) == [i \in DOMAIN ms |-> ms[i].map]

Failed == {r \in DOMAIN loads : loads[r] = "failed"}

Loaded == {r \in DOMAIN loads : loads[r] = "loaded"}

(* Request r fails in this step. *)
Fails(r) == r \in DOMAIN loads /\ loads[r] = "pending" /\ loads'[r] = "failed"

(* Request r completes in this step. *)
Completes(r) == r \in DOMAIN loads /\ loads[r] = "pending" /\ loads'[r] = "loaded"

(* C6: an addMemory request whose image load fails leaves the set of       *)
(* artifacts exactly as it was (the failing step changes nothing in it,    *)
(* and no artifact ever comes from a failed request), and the render loop  *)
(* stays scheduled.                                                        *)
C6_FailedLoadAddsNothing ==
    /\ [](rafAnimate /\ \A i \in DOMAIN memories : memories[i].map \notin Failed)
    /\ [][(\E r \in DOMAIN loads : Fails(r)) => memories' = memories]_vars

(* A load has failed and the render loop has taken its ticks, still scheduled. *)
C6_Witness == Failed # {} /\ frame = MaxTicks /\ rafAnimate

----------------------------------------------------------------------------
(* C7: the render loop never halts: after any sequence of detector         *)
(* failures, failed or pending image loads and resize events a render      *)
(* tick is scheduled, and every tick still to come (of the MaxTicks the    *)
(* model follows) is eventually taken.                                     *)
C7_RenderLoopNeverHalts ==
    /\ []rafAnimate
    /\ (frame < MaxTicks) ~> (frame = MaxTicks)

(* Every tick was taken although the detector failed and a load failed. *)
C7_Witness ==
    /\ frame = MaxTicks
    /\ camError # "none"
    /\ Failed # {}
    /\ camera # <<800, 600>>

----------------------------------------------------------------------------
----------------------------------------------------------------------------
(* C11: the ambient bob replaces the fade-in: a render tick leaves the     *)
(* position of every artifact younger than 1.5 s unchanged, and adds       *)
(* sin(t + position.x) * 0.015 to position.y only for an artifact aged     *)
(* 1.5 s or more.                                                          *)
C11_BobOnlyAfterFade ==
    [][RenderTick =>
         \A i \in DOMAIN memories :
            LET age == elapsed - memories[i].birth
            IN  /\ memories'[i].x = memories[i].x
                /\ memories'[i].y =
                      IF Fading(age) THEN memories[i].y
                      ELSE memories[i].y + Bob(elapsed, memories[i].x)]_vars

----------------------------------------------------------------------------
(* The arguments of the last updateHandInteraction call since the last     *)
(* render tick.                                                            *)
LastX == callRun.last[1]

LastY == callRun.last[2]

LastPinching == callRun.last[3]

(* The rotation had only the last call run, from the rotation at the last  *)
(* render tick.                                                            *)
OnlyLastRotation ==
    <<EaseRot(callRun.rot[1], TargetRX(LastY)), EaseRot(callRun.rot[2], TargetRY(LastX))>>

(* C12: if several updateHandInteraction calls occur between two render    *)
(* ticks, the InteractionState after the next tick (targetPosition,        *)
(* currentPosition, pinchFactor, rotationX, rotationY) is what it would be *)
(* had only the last of those calls occurred.                              *)
C12_LastCallWins ==
    [][(RenderTick /\ callRun.n >= 1) =>
          /\ targetHandPos' = MapTarget(LastX, LastY)
          /\ currentHandPos' = LerpVec(callRun.cur, MapTarget(LastX, LastY))
          /\ pinchFactor' = SmoothPinch(callRun.pinch, LastPinching)
          /\ rotation' = OnlyLastRotation]_vars

----------------------------------------------------------------------------
(* C13: currentPosition and pinchFactor are changed only by the smoothing  *)
(* step of a render tick: every other step (updateHandInteraction,         *)
(* addMemory, a load completion, resize, ...) leaves both unchanged, and a *)
(* render tick sets currentPosition to old + 0.12 * (targetPosition - old) *)
(* and eases pinchFactor by a tenth, so currentPosition never jumps to a   *)
(* newly written target.                                                   *)
C13_SmootherOwnsCurrent ==
    [][IF RenderTick
       THEN /\ \A i \in 1..3 :
                 currentHandPos'[i] = currentHandPos[i]
                    + RoundDiv((targetHandPos[i] - currentHandPos[i]) * LerpAlphaPct, 100)
            /\ pinchFactor' = SmoothPinch(pinchFactor, isPinchingRef)
       ELSE /\ currentHandPos' = currentHandPos
            /\ pinchFactor' = pinchFactor]_vars

(* A target was written and one tick has moved currentPosition 12% of the *)
(* way to it; an artifact was loaded and the viewport resized as well.     *)
C13_Witness ==
    /\ hands >= 1
    /\ frame = 1
    /\ targetHandPos # Origin
    /\ currentHandPos = LerpVec(Origin, targetHandPos)
    /\ pinchFactor > 0
    /\ Len(memories) >= 1
    /\ camera # <<800, 600>>

----------------------------------------------------------------------------
(* C14: the group rotation changes only when a fresh gesture frame         *)
(* supplies x, y: the frame moves rotationX by 4% of the gap toward        *)
(* (y - 0.5) * 0.25 and rotationY by 4% of the gap toward (x - 0.5) * 0.5; *)
(* a render tick, a detection tick without a hand and every other step     *)
(* leave rotationX and rotationY unchanged.                                *)
C14_RotationOnFreshFrame ==
    [][IF hands' = hands + 1
       THEN LET x == callRun'.last[1]
                y == callRun'.last[2]
            IN  /\ rotation'[1] = rotation[1]
                      + RoundDiv((TargetRX(y) - rotation[1]) * RotEasePct, 100)
                /\ rotation'[2] = rotation[2]
                      + RoundDiv((TargetRY(x) - rotation[2]) * RotEasePct, 100)
       ELSE rotation' = rotation]_vars

(* Two gesture frames have turned the group about both axes; render ticks  *)
(* and detection ticks without a hand followed.                            *)
C14_Witness ==
    /\ hands >= 2
    /\ rotation[1] # 0
    /\ rotation[2] # 0
    /\ frame >= 2
    /\ HandLost
    /\ missed = {"notReady", "noHand"}

----------------------------------------------------------------------------
(* The scene state a resize has no business with: particles and their      *)
(* metadata, the trail, the artifacts and the InteractionState.            *)
SceneState ==
    <<vPos, vMeta, vMatOpacity, tArray, memories, loads, targetHandPos, currentHandPos,
      isPinchingRef, pinchFactor, rotation>>

(* C15: a viewport resize changes only the camera aspect and the sizes of  *)
(* the render targets: the particle positions and metadata, the trail      *)
(* buffer, every artifact (position, opacity, birthTime, membership) and   *)
(* the InteractionState are the same after it as before.                   *)
C15_ResizeTouchesCameraOnly ==
    [][camera' # camera => SceneState' = SceneState]_vars

(* The viewport was resized with the scene in motion: particles spread by  *)
(* a pinch, a trail behind the hand, an artifact part-way through its      *)
(* fade-in.                                                                *)
C15_Witness ==
    /\ camera = <<1024, 768>>
    /\ vPos[0] > vMeta[0]
    /\ tArray[0] # Origin
    /\ tArray[1] # tArray[0]
    /\ Len(memories) = 1
    /\ memories[1].opacity > 0
    /\ rotation # <<0, 0>>

----------------------------------------------------------------------------
(* The camera was refused or the detector failed to initialise. *)
DetectorUnavailable == camError # "none"

(* C16: when the detector is unavailable from the start (camera permission *)
(* denied or initialisation failed) updateHandInteraction is never called: *)
(* targetPosition and currentPosition stay at the origin, pinchFactor      *)
(* stays 0 and the rotation stays at its initial value, while the render   *)
(* loop stays scheduled and addMemory can still be called.                 *)
C16_AmbientWithoutDetector ==
    DetectorUnavailable =>
        /\ hands = 0
        /\ targetHandPos = Origin
        /\ currentHandPos = Origin
        /\ ~isPinchingRef
        /\ pinchFactor = 0
        /\ rotation = <<0, 0>>
        /\ rafAnimate
        /\ ENABLED Animate
        /\ ENABLED AddMemory

(* Without a detector the render ticks ran and an artifact was loaded and  *)
(* has begun to fade in and to bob.                                        *)
C16_Witness ==
    /\ DetectorUnavailable
    /\ frame = MaxTicks
    /\ starRotY = MaxTicks * StarStep
    /\ Len(memories) = 1
    /\ memories[1].opacity > 0
    /\ memories[1].y # SpawnAt[2]

----------------------------------------------------------------------------
(* C17: image loading is decoupled from the ticks: an artifact is not in   *)
(* the registry before its load completes, however many ticks pass after   *)
(* addMemory; its birthTime is the elapsed time at the completion of its   *)
(* load and never changes, so its age is at least 0 on every tick; loads   *)
(* that complete out of order each get the time of their own completion.   *)
C17_BirthAtLoadCompletion ==
    /\ [](\A i \in DOMAIN memories :
            /\ loads[memories[i].map] = "loaded"
            /\ elapsed - memories[i].birth >= 0)
    /\ [][/\ \A r \in DOMAIN loads :
               Completes(r) =>
                  /\ Len(memories') = Len(memories) + 1
                  /\ memories'[Len(memories')].map = r
                  /\ memories'[Len(memories')].birth = elapsed
          /\ \A i \in DOMAIN memories : memories'[i].birth = memories[i].birth]_vars

(* The second request completed first and its artifact has been through a  *)
(* tick; the first request completed later, after that tick, and its       *)
(* artifact, born later, has not been touched by a tick yet.               *)
C17_Witness ==
    /\ Maps(memories) = <<2, 1>>
    /\ memories[1].opacity > 0
    /\ memories[2].opacity = 0
    /\ memories[2].y = SpawnAt[2]
    /\ memories[2].birth > memories[1].birth
    /\ memories[1].birth > 0

----------------------------------------------------------------------------
(* The particle field and the smoothed position a tick leaves behind,      *)
(* given the float the trail slot holds for the position.                  *)
TickOrder(slot0) ==
    LET p == SmoothPinch(pinchFactor, isPinchingRef)
        c == LerpVec(currentHandPos, targetHandPos)
    IN  /\ pinchFactor' = p
        /\ \A i \in 0..(vCount - 1) :
              vPos'[i] = vMeta[i] + RoundDiv((vMeta[i] \div PinchScale) * p * VGrowPct, 100)
        /\ vMatOpacity' = VOpacityBase + RoundDiv(p * VOpacityGain, PinchScale)
        /\ currentHandPos' = c
        /\ tArray'[0] = slot0

(* C18 (as amended): within one render tick pinchFactor is smoothed before *)
(* the particle field reads it, so every particle's radius and the field   *)
(* opacity use this tick's pinchFactor, and currentPosition is             *)
(* interpolated before the trail is written, so after every tick trail     *)
(* slot 0 holds the smoothed currentPosition of that tick, rounded to the  *)
(* precision of the 32-bit float slot, and not the raw targetPosition.     *)
C18_TickOrder ==
    [][RenderTick => TickOrder(FroundVec(currentHandPos'))]_vars

(* After a tick with the latch set and the hand away from its target: the  *)
(* radius is the one of the new pinchFactor and not of the old, slot 0 is  *)
(* the rounded smoothed position, neither that position nor the target.    *)
C18_Witness ==
    /\ frame >= 2
    /\ Len(pinchRun) >= 1
    /\ pinchFactor > pinchRun[1]
    /\ vPos[0] = CurrentR(vMeta[0], pinchFactor)
    /\ vPos[0] # CurrentR(vMeta[0], pinchRun[1])
    /\ vMatOpacity # VortexOpacity(pinchRun[1])
    /\ tArray[0] = FroundVec(currentHandPos)
    /\ tArray[0] # currentHandPos
    /\ tArray[0] # FroundVec(targetHandPos)

(* C18 as stated: after every tick trail slot 0 equals the smoothed        *)
(* currentPosition of that tick.                                           *)
C18_TickOrderExact ==
    [][RenderTick => TickOrder(currentHandPos')]_vars

----------------------------------------------------------------------------
(* A detection tick that found no hand: detect() returned null or          *)
(* {detected: false}.                                                      *)
MissTick == missed' # missed \/ (handDetected /\ ~handDetected')

(* C19: a missing hand is a normal outcome and not a failure: when         *)
(* detect() returns null (not ready, the detector not asked) or            *)
(* detected = false (no landmarks), the detection loop calls               *)
(* updateHandInteraction not at all, raises no error and reschedules       *)
(* itself, so that a hand found on a later detection tick is still         *)
(* delivered to the scene.                                                 *)
C19_MissIsNotFailure ==
    /\ [](cv = "detecting" =>
            /\ camError = "none"
            /\ \A palm \in Palms, tip \in TipOffsets : ENABLED DetectHand(palm, tip))
    /\ [][MissTick =>
            /\ cv = "detecting"
            /\ cv' = "detecting"
            /\ camError' = camError
            /\ hands' = hands
            /\ callRun' = callRun
            /\ sceneVars' = sceneVars]_vars

(* The first hand to be delivered came after a tick of each kind without   *)
(* one, and set the target.                                                *)
C19_Witness ==
    /\ missed = {"notReady", "noHand"}
    /\ handDetected
    /\ hands = 1
    /\ callRun.n = 1
    /\ targetHandPos = MapTarget(LastX, LastY)
    /\ targetHandPos # Origin

----------------------------------------------------------------------------
(* A render tick taken with the latch set and the hand lost. *)
LatchedTick == RenderTick /\ isPinchingRef /\ HandLost

(* C20 (as amended): the latched pinch signal is retained when the hand is *)
(* lost: if the last detected frame had pinching = true and every later    *)
(* detection tick reports no hand, the latch stays true, and on every      *)
(* render tick pinchFactor does not decrease and rises strictly toward 1   *)
(* unless it is already within rounding resolution of 1, where it stays;   *)
(* it never decays toward 0 until a detected frame with pinching = false   *)
(* arrives.                                                                *)
C20_LatchRetained ==
    [][/\ hands' = hands => isPinchingRef' = isPinchingRef
       /\ LatchedTick =>
             /\ pinchFactor' >= pinchFactor
             /\ pinchFactor' <= PinchScale
             /\ PinchScale - pinchFactor > PinchStall => pinchFactor' > pinchFactor]_vars

(* The hand was lost with the latch set and pinchFactor has risen to       *)
(* within a hundredth of 1 over the ticks since.                           *)
C20_Witness ==
    /\ HandLost
    /\ isPinchingRef
    /\ "noHand" \in missed
    /\ frame >= 50
    /\ pinchFactor > PinchScale - PinchScale \div 100

(* C20 as stated: the latch stays true and pinchFactor rises on every      *)
(* render tick.                                                            *)
C20_RisesEveryTick ==
    [][/\ hands' = hands => isPinchingRef' = isPinchingRef
       /\ LatchedTick => pinchFactor' > pinchFactor]_vars

====
